---------------------------- MODULE Spec2Model ----------------------------
(***************************************************************************)
(* Chaum-Pedersen protocol of zk-cp-proof: the protocol state machine      *)
(* (protocol/src/protocol/cp.rs), the group-parameter generator            *)
(* (material/src/infrastructure/generator.rs) and the verifier session     *)
(* logic (verifier/src/application/handler.rs over mem_storage.rs).        *)
(*                                                                         *)
(* Three specifications share the variables:                               *)
(*   Spec          one protocol round over a Material that was built by    *)
(*                 hand or by Material::generate(None);                    *)
(*   SpecGen       DefaultMaterialGenerator::generate followed by an       *)
(*                 honest protocol round over the Material it returned;    *)
(*   SpecVerifier  register / create_challenge / verify_challenge calls    *)
(*                 against FileParams and MemStorage.                      *)
(* Numbers are BigInt in the source; the model keeps them small enough     *)
(* that no product leaves TLC's integers.                                  *)
(***************************************************************************)
EXTENDS Integers, FiniteSets, Sequences, TLC

VARIABLES
    \* ---- one protocol round (cp.rs) ----
    pc,         \* position of the round
    src,        \* where the Material came from: "none", "builder", "default", "generated"
    material,   \* Material {g, h, q, p}
    x,          \* the secret given to Register::new
    y1, y2,     \* Register.y1, Register.y2
    k,          \* Commitment.k
    r1, r2,     \* Commitment.r1, Commitment.r2
    c,          \* Challenge.c
    xr,         \* ChallengeResponse.x, the secret the response is computed from
    s,          \* VerificationRequest.s
    result,     \* VerificationResult
    \* ---- DefaultMaterialGenerator::generate (generator.rs) ----
    gen_pc,     \* "idle", "selecting" (inside select!), "returned"
    gen_q,      \* resolved q
    gen_p,      \* resolved p
    task,       \* the spawned search task: "none", "running", "done", "panicked"
    timer,      \* the spawned timeout task: "none", "sleeping", "fired", "aborted"
    group_ch,   \* oneshot group channel: st is "empty", "closed" or "sent" (with g, h)
    timeout_ch, \* oneshot timeout channel: "empty" or "sent"
    gen_result, \* what generate returned: "none", "ok" or the error
    \* ---- VerifierApplication<FileParams, MemStorage> ----
    params,     \* FileParams.materials: user -> Material or NoMaterial
    users,      \* MemStorage.users: user -> Register or NoRegister
    challenges, \* MemStorage.challenges: auth_id -> ChallengeStore or NoChallenge
    issued,     \* history: every ChallengeResponse that create_challenge returned
    resp,       \* the last call of the verifier service and what it returned
    \* ---- MaterialApplication<DefaultMaterialGenerator, MemStorage> ----
    materials,  \* MemStorage.materials: user -> Material or NoMaterial
    mcalls,     \* caller -> the call of the material service it is in, or its last result
    mfirst,     \* history: user -> the first Material create_material returned for it
    \* ---- ChallengeTransition of verifier/src/domain/verifier.rs (fixed width) ----
    fixed,      \* the last ChallengeTransition<ChallengeVerification>::change call and its result
    sessions,   \* history: the SessionIds minted so far
    \* ---- the prover binary (prover/src/main.rs) ----
    wire,       \* the requests the prover has sent to the verifier, in order
    \* ---- the type-state wrapper ProtocolState<S> (cp.rs) ----
    ts,         \* the ProtocolState a client holds and how it was obtained
    \* ---- VerifierApplication<M, S> over arbitrary ports (handler.rs) ----
    hcall       \* the last handler call: what its ports answered, which it called, its result

protoVars == <<pc, src, material, x, y1, y2, k, r1, r2, c, xr, s, result>>
genVars == <<gen_pc, gen_q, gen_p, task, timer, group_ch, timeout_ch, gen_result>>
verVars == <<params, users, challenges, issued, resp>>
matVars == <<materials, mcalls, mfirst>>
fixVars == <<fixed, sessions>>
vars == <<protoVars, genVars, verVars, matVars, fixVars, wire, ts, hcall>>

-----------------------------------------------------------------------------
(* Bounds of the model *)

\* Material::builder inputs: g and h range over 2..MaxG (and p - 1)
MaxG == 5
\* secrets x (and x') range over 0..MaxX
MaxX == 9
\* largest modulus p handed to Material::builder or to generate as a hint
MaxP == 43
\* largest q handed to generate as a hint
MaxHintQ == 7
\* Generator::safe_prime(16) of Material::generate is modelled as a safe prime
\* in SafePrimeMin..SafePrimeMax (p > 7, so that g = 7 is a residue below p)
SafePrimeMin == 8
SafePrimeMax == 15
\* Generator::safe_prime(16) of DefaultMaterialGenerator::generate is modelled
\* as a safe prime in GenPrimeMin..GenPrimeMax
GenPrimeMin == 4
GenPrimeMax == 7
\* the verifier mints at most MaxAuth auth_ids
MaxAuth == 2
\* answers s submitted to verify_challenge range over -1..MaxS
MaxS == 5
\* SessionIds that can be minted before the model stops
MaxSession == 3
\* constructions and transitions a client of ProtocolState makes
MaxTrail == 3
\* k, c, x and q of a ChallengeResponse that is built field by field
MaxResp == 5

-----------------------------------------------------------------------------
(* Arithmetic substrate (num_bigint, num_primes) *)

None == "None"
NoMaterial == [g |-> 0, h |-> 0, q |-> 0, p |-> 0]

\* BigInt::modpow(exponent, modulus) for exponent >= 0 and modulus > 0:
\* the result is reduced like mod_floor, into [0, modulus)
RECURSIVE ModPow(_, _, _)
ModPow(b, e, m) == IF e = 0 THEN 1 % m ELSE (b * ModPow(b, e - 1, m)) % m

\* BigInt::modpow panics when the exponent is negative or the modulus is zero
ModPowPanics(e, m) == e < 0 \/ m = 0

\* num_primes Verification::is_prime
IsPrime(n) == n > 1 /\ \A d \in 2..(n - 1) : n % d # 0

\* Generator::safe_prime(bits): a prime p with (p-1)/2 prime, of the modelled size
IsSafePrime(n) == IsPrime(n) /\ n % 2 = 1 /\ IsPrime((n - 1) \div 2)
SafePrimes == {n \in SafePrimeMin..SafePrimeMax : IsSafePrime(n)}
GenSafePrimes == {n \in GenPrimeMin..GenPrimeMax : IsSafePrime(n)}

\* rand gen_bigint_range(lo, hi): uniform in [lo, hi), panics when lo >= hi
GenBigintRange(lo, hi) == lo..(hi - 1)

-----------------------------------------------------------------------------
(* Pure transition functions of cp.rs *)

\* Register::new: y1 = g^x mod p, y2 = h^x mod p
RegisterNew(m, xv) == [y1 |-> ModPow(m.g, xv, m.p), y2 |-> ModPow(m.h, xv, m.p)]

\* Material::generate(None) for a safe prime p drawn by Generator::safe_prime
MaterialGenerate(p) ==
    [g |-> 7, h |-> ModPow(7, 11, p), q |-> (p - 1) \div 2, p |-> p]

\* a commit range that lets k reach q - 1
CommitSamples_TooWide(q) == GenBigintRange(2, q)

\* ProtocolState<Register>::change samples k in [2, q-2)
CommitSamples(q) == GenBigintRange(2, q - 2)

\* a challenge range that lets c reach q (c congruent to 0 modulo q)
ChallengeSamples_TooWide(q) == GenBigintRange(2, q + 1)

\* a challenge range that starts at 0
ChallengeSamples_FromZero(q) == GenBigintRange(0, q - 1)

\* ProtocolState<Material>::change samples c in [2, q-1)
ChallengeSamples(q) == GenBigintRange(2, q - 1)

\* a response that forgets to negate the reduced difference when k <= c*x
ResponseS_NoNegate(kv, cv, xv, q) ==
    LET cx == cv * xv
    IN  IF kv > cx THEN (kv - cx) % q ELSE (cx - kv) % q

\* a response that subtracts c + x instead of c * x
ResponseS_AddsSecret(kv, cv, xv, q) ==
    LET cx == cv + xv
    IN  IF kv > cx THEN (kv - cx) % q ELSE q - ((cx - kv) % q)

\* ProtocolState<ChallengeResponse>::change
ResponseS(kv, cv, xv, q) ==
    LET cx == cv * xv
    IN  IF kv > cx THEN (kv - cx) % q ELSE q - ((cx - kv) % q)

\* the two recomputed commitments of ProtocolState<Verification>::change
R1Prime(m, y1v, cv, sv) == (ModPow(m.g, sv, m.p) * ModPow(y1v, cv, m.p)) % m.p
R2Prime(m, y2v, cv, sv) == (ModPow(m.h, sv, m.p) * ModPow(y2v, cv, m.p)) % m.p

\* a verification that checks the second commitment only
VerificationResult_OnlySecond(m, y1v, y2v, r1v, r2v, cv, sv) ==
    IF r2v = R2Prime(m, y2v, cv, sv)
    THEN "ChallengeVerifiedSuccess"
    ELSE "ChallengeVerificationFailed"

\* a verification that accepts when either commitment matches
VerificationResult_Either(m, y1v, y2v, r1v, r2v, cv, sv) ==
    IF r1v = R1Prime(m, y1v, cv, sv) \/ r2v = R2Prime(m, y2v, cv, sv)
    THEN "ChallengeVerifiedSuccess"
    ELSE "ChallengeVerificationFailed"

\* ProtocolState<Verification>::change
VerificationResult(m, y1v, y2v, r1v, r2v, cv, sv) ==
    IF r1v = R1Prime(m, y1v, cv, sv) /\ r2v = R2Prime(m, y2v, cv, sv)
    THEN "ChallengeVerifiedSuccess"
    ELSE "ChallengeVerificationFailed"

-----------------------------------------------------------------------------
(* Initial states *)

\* states of the oneshot channel that carries the (g, h) pair
GroupEmpty == [st |-> "empty", g |-> 0, h |-> 0]
GroupClosed == [st |-> "closed", g |-> 0, h |-> 0]
GroupSent(g, h) == [st |-> "sent", g |-> g, h |-> h]

ProtoInit ==
    /\ pc = "init" /\ src = "none" /\ material = NoMaterial
    /\ x = 0 /\ y1 = 0 /\ y2 = 0 /\ k = 0 /\ r1 = 0 /\ r2 = 0
    /\ c = 0 /\ xr = 0 /\ s = 0 /\ result = None

GenInit ==
    /\ gen_pc = "idle" /\ gen_q = 0 /\ gen_p = 0
    /\ task = "none" /\ timer = "none"
    /\ group_ch = GroupEmpty /\ timeout_ch = "empty" /\ gen_result = "none"

\* users known to the verifier, and the auth_ids Uuid::new_v4 can mint
VUsers == {"u1", "u2"}
AuthIds == 1..MaxAuth

\* absent entries of the two DashMaps
NoRegister == [present |-> FALSE, y1 |-> 0, y2 |-> 0]
NoChallenge == [present |-> FALSE, user |-> "", r1 |-> 0, r2 |-> 0, c |-> 0]
NoCall == [op |-> "none", user |-> "", v1 |-> 0, v2 |-> 0, auth |-> 0, c |-> 0,
           old |-> NoRegister, reads |-> 0, writes |-> 0, ret |-> "none"]

\* MemStorage::new
StorageInit ==
    /\ users = [u \in VUsers |-> NoRegister]
    /\ challenges = [a \in AuthIds |-> NoChallenge]
    /\ issued = {}
    /\ resp = NoCall

\* the verifier is not part of a bare protocol round
VerIdle ==
    /\ params = [u \in VUsers |-> NoMaterial]
    /\ StorageInit

\* users and concurrent callers of the material service
MatUsers == {"u1"}
Callers == {"c1", "c2"}

\* a caller that has not called the material service
IdleCall ==
    [pc |-> "idle", op |-> "none", user |-> "", qh |-> <<>>, ph |-> <<>>,
     m |-> NoMaterial, err |-> "", fresh |-> FALSE]

\* MaterialApplication::new_default: MemStorage::new, no call in flight
MatInit ==
    /\ materials = [u \in MatUsers |-> NoMaterial]
    /\ mcalls = [cl \in Callers |-> IdleCall]
    /\ mfirst = [u \in MatUsers |-> NoMaterial]

\* no ChallengeTransition<ChallengeVerification>::change call made yet, no
\* SessionId minted
NoSession == 0
NoFixedCall ==
    [g |-> 0, h |-> 0, p |-> 0, y1 |-> 0, y2 |-> 0, r1 |-> 0, r2 |-> 0, c |-> 0, s |-> 0,
     build |-> "none", outcome |-> "none", session |-> NoSession]

FixInit ==
    /\ fixed = NoFixedCall
    /\ sessions = {}

\* the prover has sent nothing
WireInit == wire = <<>>

\* the client holds no ProtocolState yet
TypeStateInit == ts = [state |-> "none", trail |-> <<>>]

\* answers of the ports of VerifierApplication<M, S>: Ok(Some(v)), Ok(None), Err
AnsSome(v) == [st |-> "some", v |-> v]
AnsNone(v) == [st |-> "none", v |-> v]
AnsErr(v) == [st |-> "err", v |-> v]

\* no handler call made yet
NoHandlerCall ==
    [op |-> "none", query |-> AnsNone(NoMaterial), getc |-> AnsNone(NoChallenge),
     getu |-> AnsNone(NoRegister), store |-> "ok", s |-> 0, auth |-> 0, c |-> 0,
     ports |-> <<>>, stored |-> FALSE, ret |-> "none"]

HandlerInit == hcall = NoHandlerCall

-----------------------------------------------------------------------------
(* One protocol round *)

\* Material::builder()...build(): any values; here a safe-prime modulus with
\* its half q and small g, h
BuilderModuli == {n \in 2..MaxP : IsSafePrime(n)}

\* the g and h handed to the builder: the small elements and p - 1, the
\* element of order 2
BuilderElements(p) == (2..MaxG) \cup {p - 1}

BuildMaterial(p, g, h) ==
    /\ pc = "init"
    /\ material' = [g |-> g, h |-> h, q |-> (p - 1) \div 2, p |-> p]
    /\ src' = "builder"
    /\ pc' = "material"
    /\ UNCHANGED <<x, y1, y2, k, r1, r2, c, xr, s, result>>

\* Material::default()
DefaultMaterial(p) ==
    /\ pc = "init"
    /\ material' = MaterialGenerate(p)
    /\ src' = "default"
    /\ pc' = "material"
    /\ UNCHANGED <<x, y1, y2, k, r1, r2, c, xr, s, result>>

\* Register::new(material, x)
NewRegister(xv) ==
    /\ pc = "material"
    /\ x' = xv
    /\ y1' = RegisterNew(material, xv).y1
    /\ y2' = RegisterNew(material, xv).y2
    /\ pc' = "registered"
    /\ UNCHANGED <<src, material, k, r1, r2, c, xr, s, result>>

\* ProtocolState<Register>::change: Register -> Commitment
\* (gen_bigint_range panics on an empty range)
CommitChange ==
    /\ pc = "registered"
    /\ IF CommitSamples(material.q) = {}
       THEN /\ pc' = "aborted"
            /\ UNCHANGED <<k, r1, r2>>
       ELSE \E kv \in CommitSamples(material.q) :
                /\ k' = kv
                /\ r1' = ModPow(material.g, kv, material.p)
                /\ r2' = ModPow(material.h, kv, material.p)
                /\ pc' = "committed"
    /\ UNCHANGED <<src, material, x, y1, y2, c, xr, s, result>>

\* ProtocolState<Material>::change: Material -> Challenge
ChallengeChange ==
    /\ pc = "committed"
    /\ IF ChallengeSamples(material.q) = {}
       THEN /\ pc' = "aborted"
            /\ UNCHANGED c
       ELSE \E cv \in ChallengeSamples(material.q) :
                /\ c' = cv
                /\ pc' = "challenged"
    /\ UNCHANGED <<src, material, x, y1, y2, k, r1, r2, xr, s, result>>

\* ProtocolState<ChallengeResponse>::change with ChallengeResponse.x = xv
ResponseChange(xv) ==
    /\ pc = "challenged"
    /\ xr' = xv
    /\ s' = ResponseS(k, c, xv, material.q)
    /\ pc' = "responded"
    /\ UNCHANGED <<src, material, x, y1, y2, k, r1, r2, c, result>>

\* the prover answers from the secret it registered
HonestResponse == ResponseChange(x)

\* the honest response with s incremented by 1 before it is submitted
TamperedResponse ==
    /\ pc = "challenged"
    /\ xr' = x
    /\ s' = ResponseS(k, c, x, material.q) + 1
    /\ pc' = "responded"
    /\ UNCHANGED <<src, material, x, y1, y2, k, r1, r2, c, result>>

\* ProtocolState<Verification>::change
VerificationChange ==
    /\ pc = "responded"
    /\ result' = VerificationResult(material, y1, y2, r1, r2, c, s)
    /\ pc' = "done"
    /\ UNCHANGED <<src, material, x, y1, y2, k, r1, r2, c, xr, s>>

Init ==
    /\ ProtoInit /\ GenInit /\ VerIdle /\ MatInit /\ FixInit /\ WireInit /\ TypeStateInit
    /\ HandlerInit

Next ==
    \/ /\ \E p \in BuilderModuli :
            \E g \in BuilderElements(p), h \in BuilderElements(p) : BuildMaterial(p, g, h)
       /\ UNCHANGED <<genVars, verVars, matVars, fixVars, wire, ts, hcall>>
    \/ /\ \E p \in SafePrimes : DefaultMaterial(p)
       /\ UNCHANGED <<genVars, verVars, matVars, fixVars, wire, ts, hcall>>
    \/ /\ \E xv \in 0..MaxX : NewRegister(xv)
       /\ UNCHANGED <<genVars, verVars, matVars, fixVars, wire, ts, hcall>>
    \/ /\ CommitChange
       /\ UNCHANGED <<genVars, verVars, matVars, fixVars, wire, ts, hcall>>
    \/ /\ ChallengeChange
       /\ UNCHANGED <<genVars, verVars, matVars, fixVars, wire, ts, hcall>>
    \/ /\ \E xv \in 0..MaxX : ResponseChange(xv)
       /\ UNCHANGED <<genVars, verVars, matVars, fixVars, wire, ts, hcall>>
    \/ /\ TamperedResponse
       /\ UNCHANGED <<genVars, verVars, matVars, fixVars, wire, ts, hcall>>
    \/ /\ VerificationChange
       /\ UNCHANGED <<genVars, verVars, matVars, fixVars, wire, ts, hcall>>

Spec == Init /\ [][Next]_vars

\* ProtocolState::from(ChallengeResponse { challenge, material, x, k }).change()
\* on a ChallengeResponse whose fields a client filled in itself
DirectResponse(kv, cv, xv, qv) ==
    /\ material' = [NoMaterial EXCEPT !.q = qv]
    /\ src' = "builder"
    /\ k' = kv
    /\ c' = cv
    /\ x' = xv
    /\ xr' = xv
    /\ s' = ResponseS(kv, cv, xv, qv)
    /\ pc' = "responded"
    /\ UNCHANGED <<y1, y2, r1, r2, result>>

NextResponse ==
    /\ \E kv \in 0..MaxResp, cv \in 0..MaxResp, xv \in 0..MaxResp, qv \in 1..MaxResp :
           DirectResponse(kv, cv, xv, qv)
    /\ UNCHANGED <<genVars, verVars, matVars, fixVars, wire, ts, hcall>>

SpecResponse == Init /\ [][NextResponse]_vars

-----------------------------------------------------------------------------
(* DefaultMaterialGenerator::generate (material/src/infrastructure/generator.rs) *)

\* the loop of verify_generator: n more squarings modulo order, none of which
\* may give 0 or 1
RECURSIVE SquaringLoop(_, _, _)
SquaringLoop(last, order, n) ==
    IF n = 0 THEN TRUE
    ELSE LET next == ModPow(last, 2, order)
         IN  IF next = 1 \/ next = 0 THEN FALSE
             ELSE SquaringLoop(next, order, n - 1)

\* verify_generator(element, order) returns Ok: `for _ in 1..limit` runs
\* limit - 1 times (not at all for limit = 0) and count ends as 1 + iterations
VerifyGenerator(element, order) ==
    LET limit == order
        iterations == IF limit >= 1 THEN limit - 1 ELSE 0
    IN  /\ SquaringLoop(element, order, iterations)
        /\ 1 + iterations = limit

\* rng.gen_range(2..=limit - 1), which panics on an empty range
GroupCandidates(limit) == 2..(limit - 1)

\* generate_group(q, limit) returns Ok((g, h))
GenerateGroupOk(g, h, q) == VerifyGenerator(g, q) /\ VerifyGenerator(h, q)

\* Option<PrimeOrder>: <<>> is None, <<n>> is Some(PrimeOrder(n))
NoHint == <<>>
Some(n) == <<n>>

\* the hints generate is called with
QHints == {NoHint} \cup {Some(n) : n \in 0..MaxHintQ}
PHints == {NoHint} \cup {Some(n) : n \in 0..MaxP}

\* q.map(Into::into).unwrap_or(Generator::safe_prime(16))
ResolveHint(hint) == IF hint = NoHint THEN GenSafePrimes ELSE {hint[1]}

\* a primality check that accepts every order
VerifyPrime_Always(order) == TRUE

\* verify_prime(order) returns Ok
VerifyPrime(order) == IsPrime(order)

\* generate(q, p) up to the select!: resolve the hints, reject q = p and
\* non-primes, then spawn the timeout task and the search task
Generate(qh, ph) ==
    /\ gen_pc = "idle"
    /\ \E q \in ResolveHint(qh), p \in ResolveHint(ph) :
        /\ gen_q' = q
        /\ gen_p' = p
        /\ IF q = p
           THEN /\ gen_pc' = "returned"
                /\ gen_result' = "q and p cannot be the same"
                /\ UNCHANGED <<task, timer>>
           ELSE IF ~VerifyPrime(q) \/ ~VerifyPrime(p)
           THEN /\ gen_pc' = "returned"
                /\ gen_result' = "Order is not prime"
                /\ UNCHANGED <<task, timer>>
           ELSE /\ gen_pc' = "selecting"
                /\ timer' = "sleeping"
                /\ task' = "running"
                /\ UNCHANGED gen_result
    /\ UNCHANGED <<group_ch, timeout_ch>>

\* one iteration of the search task's loop: generate_group, and on Ok the send
\* on the group channel (which fails once generate has returned and dropped the
\* receiver) and the break
SearchIteration ==
    /\ task = "running"
    /\ IF GroupCandidates(gen_q) = {}
       THEN /\ task' = "panicked"
            /\ group_ch' = IF gen_pc = "selecting" THEN GroupClosed ELSE group_ch
       ELSE \E g \in GroupCandidates(gen_q), h \in GroupCandidates(gen_q) :
                IF GenerateGroupOk(g, h, gen_q)
                THEN /\ task' = "done"
                     /\ group_ch' = IF gen_pc = "selecting" THEN GroupSent(g, h) ELSE group_ch
                ELSE UNCHANGED <<task, group_ch>>
    /\ UNCHANGED <<gen_pc, gen_q, gen_p, timer, timeout_ch, gen_result>>

\* a timeout task whose sleep elapses but which sends nothing
TimerFire_NoSend ==
    /\ timer = "sleeping"
    /\ timer' = "fired"
    /\ UNCHANGED <<gen_pc, gen_q, gen_p, task, group_ch, timeout_ch, gen_result>>

\* the timeout task: the sleep of 10 s elapses and it sends on the timeout channel
TimerFire ==
    /\ timer = "sleeping"
    /\ timer' = "fired"
    /\ timeout_ch' = "sent"
    /\ UNCHANGED <<gen_pc, gen_q, gen_p, task, group_ch, gen_result>>

\* select! takes the timeout branch: generate returns the timeout error; the
\* search task was spawned detached and is left as it is
SelectTimeout ==
    /\ gen_pc = "selecting"
    /\ timeout_ch = "sent"
    /\ gen_pc' = "returned"
    /\ gen_result' = "Timeout in generating group"
    /\ UNCHANGED <<gen_q, gen_p, task, timer, group_ch, timeout_ch>>

\* select! takes the group branch with Err(RecvError): the sender was dropped
\* by a search task that panicked; t.abort() and the error is returned
SelectClosed ==
    /\ gen_pc = "selecting"
    /\ group_ch.st = "closed"
    /\ gen_pc' = "returned"
    /\ gen_result' = "channel closed"
    /\ timer' = IF timer = "sleeping" THEN "aborted" ELSE timer
    /\ UNCHANGED <<gen_q, gen_p, task, group_ch, timeout_ch>>

\* the Material that generate builds from the pair received
GeneratedMaterial(pair) == [g |-> pair.g, h |-> pair.h, q |-> gen_q, p |-> gen_p]

\* select! takes the group branch with Ok((g, h)): t.abort() and
\* Ok(Material {g, h, p, q}) is returned; the round that follows uses it
SelectGroup ==
    /\ gen_pc = "selecting"
    /\ group_ch.st = "sent"
    /\ gen_pc' = "returned"
    /\ gen_result' = "ok"
    /\ timer' = IF timer = "sleeping" THEN "aborted" ELSE timer
    /\ material' = GeneratedMaterial(group_ch)
    /\ src' = "generated"
    /\ pc' = "material"
    /\ UNCHANGED <<gen_q, gen_p, task, group_ch, timeout_ch>>
    /\ UNCHANGED <<x, y1, y2, k, r1, r2, c, xr, s, result>>

NextGen ==
    \/ /\ \E qh \in QHints, ph \in PHints : Generate(qh, ph)
       /\ UNCHANGED <<protoVars, verVars, matVars, fixVars, wire, ts, hcall>>
    \/ /\ SearchIteration
       /\ UNCHANGED <<protoVars, verVars, matVars, fixVars, wire, ts, hcall>>
    \/ /\ TimerFire
       /\ UNCHANGED <<protoVars, verVars, matVars, fixVars, wire, ts, hcall>>
    \/ /\ SelectTimeout
       /\ UNCHANGED <<protoVars, verVars, matVars, fixVars, wire, ts, hcall>>
    \/ /\ SelectClosed
       /\ UNCHANGED <<protoVars, verVars, matVars, fixVars, wire, ts, hcall>>
    \/ /\ SelectGroup
       /\ UNCHANGED <<verVars, matVars, fixVars, wire, ts, hcall>>
    \/ /\ \E xv \in 0..MaxX : NewRegister(xv)
       /\ UNCHANGED <<genVars, verVars, matVars, fixVars, wire, ts, hcall>>
    \/ /\ CommitChange
       /\ UNCHANGED <<genVars, verVars, matVars, fixVars, wire, ts, hcall>>
    \/ /\ ChallengeChange
       /\ UNCHANGED <<genVars, verVars, matVars, fixVars, wire, ts, hcall>>
    \/ /\ HonestResponse
       /\ UNCHANGED <<genVars, verVars, matVars, fixVars, wire, ts, hcall>>
    \/ /\ VerificationChange
       /\ UNCHANGED <<genVars, verVars, matVars, fixVars, wire, ts, hcall>>

SpecGen == Init /\ [][NextGen]_vars

\* the steps of generate and of the two tasks it spawns
GenerateStep ==
    /\ \E qh \in QHints, ph \in PHints : Generate(qh, ph)
    /\ UNCHANGED <<protoVars, verVars, matVars, fixVars, wire, ts, hcall>>
SearchStep == SearchIteration /\ UNCHANGED <<protoVars, verVars, matVars, fixVars, wire, ts, hcall>>
TimerStep == TimerFire /\ UNCHANGED <<protoVars, verVars, matVars, fixVars, wire, ts, hcall>>
SelectTimeoutStep == SelectTimeout /\ UNCHANGED <<protoVars, verVars, matVars, fixVars, wire, ts, hcall>>
SelectClosedStep == SelectClosed /\ UNCHANGED <<protoVars, verVars, matVars, fixVars, wire, ts, hcall>>
SelectGroupStep == SelectGroup /\ UNCHANGED <<verVars, matVars, fixVars, wire, ts, hcall>>

NextGenLive ==
    \/ GenerateStep
    \/ SearchStep
    \/ TimerStep
    \/ SelectTimeoutStep
    \/ SelectClosedStep
    \/ SelectGroupStep

\* the runtime keeps running the two spawned tasks and polls generate's
\* select! whenever one of its channels is ready
GenFairness ==
    /\ WF_vars(SearchStep)
    /\ WF_vars(TimerStep)
    /\ WF_vars(SelectTimeoutStep)
    /\ WF_vars(SelectClosedStep)
    /\ WF_vars(SelectGroupStep)

SpecGenLive == Init /\ [][NextGenLive]_vars /\ GenFairness

-----------------------------------------------------------------------------
(* MaterialApplication<DefaultMaterialGenerator, MemStorage>                 *)
(* (material/src/application/handler.rs over material mem_storage.rs)        *)

\* the hints callers pass to create_material
MatQHints == {NoHint, Some(MaxHintQ)}
MatPHints == {NoHint, Some(MaxHintQ)}

\* results of MaterialGenerator::generate
GenOk(m) == [ok |-> TRUE, m |-> m, err |-> ""]
GenErr(e) == [ok |-> FALSE, m |-> NoMaterial, err |-> e]

\* what DefaultMaterialGenerator::generate can return for resolved q and p:
\* the two input errors, else a Material for every pair the search can send,
\* the timeout error, and the RecvError when the search task panics
GenerateResultsFor(q, p) ==
    IF q = p THEN {GenErr("q and p cannot be the same")}
    ELSE IF ~VerifyPrime(q) \/ ~VerifyPrime(p) THEN {GenErr("Order is not prime")}
    ELSE IF GroupCandidates(q) = {}
    THEN {GenErr("channel closed"), GenErr("Timeout in generating group")}
    ELSE {GenOk([g |-> g, h |-> h, q |-> q, p |-> p]) :
              g \in {e \in GroupCandidates(q) : VerifyGenerator(e, q)},
              h \in {e \in GroupCandidates(q) : VerifyGenerator(e, q)}}
         \cup {GenErr("Timeout in generating group")}

\* what generate(qh, ph) can return
GenerateResults(qh, ph) ==
    UNION {GenerateResultsFor(q, p) : q \in ResolveHint(qh), p \in ResolveHint(ph)}

\* MemStorage::get and MemStorage::store of the material service
MatGet(u) == materials[u]
MatStore(u, m) == [materials EXCEPT ![u] = m]

\* a create_material that never finds stored material
MaterialExists_Never(m) == FALSE

\* create_material: if let Some(material) = material
MaterialExists(m) == m # NoMaterial

\* the first Material create_material returned for u, once there is one
FirstReturned(u, m) ==
    IF mfirst[u] = NoMaterial THEN [mfirst EXCEPT ![u] = m] ELSE mfirst

\* create_material up to generate: storage.get, and the early return of the
\* stored material
CreateGet(cl, u, qh, ph) ==
    /\ mcalls[cl].pc \in {"idle", "returned"}
    /\ IF MaterialExists(MatGet(u))
       THEN /\ mcalls' = [mcalls EXCEPT ![cl] =
                    [pc |-> "returned", op |-> "create", user |-> u, qh |-> qh, ph |-> ph,
                     m |-> MatGet(u), err |-> "", fresh |-> FALSE]]
            /\ mfirst' = FirstReturned(u, MatGet(u))
       ELSE /\ mcalls' = [mcalls EXCEPT ![cl] =
                    [pc |-> "generating", op |-> "create", user |-> u, qh |-> qh, ph |-> ph,
                     m |-> NoMaterial, err |-> "", fresh |-> FALSE]]
            /\ UNCHANGED mfirst
    /\ UNCHANGED materials

\* a create_material that stores a fallback Material when generate fails
CreateGenerate_StoresFailure(cl) ==
    /\ mcalls[cl].pc = "generating"
    /\ \E r \in GenerateResults(mcalls[cl].qh, mcalls[cl].ph) :
        mcalls' = [mcalls EXCEPT ![cl] =
            IF r.ok
            THEN [@ EXCEPT !.pc = "storing", !.m = r.m, !.fresh = TRUE]
            ELSE [@ EXCEPT !.pc = "storing", !.err = r.err, !.fresh = TRUE,
                           !.m = [g |-> MaxHintQ, h |-> MaxHintQ,
                                  q |-> MaxHintQ, p |-> MaxHintQ]]]
    /\ UNCHANGED <<materials, mfirst>>

\* create_material: self.generator.generate(q, p).await?
CreateGenerate(cl) ==
    /\ mcalls[cl].pc = "generating"
    /\ \E r \in GenerateResults(mcalls[cl].qh, mcalls[cl].ph) :
        mcalls' = [mcalls EXCEPT ![cl] =
            IF r.ok
            THEN [@ EXCEPT !.pc = "storing", !.m = r.m, !.fresh = TRUE]
            ELSE [@ EXCEPT !.pc = "returned", !.err = r.err, !.fresh = TRUE]]
    /\ UNCHANGED <<materials, mfirst>>

\* create_material: storage.store(user, material) and Ok(material)
CreateStore(cl) ==
    /\ mcalls[cl].pc = "storing"
    /\ materials' = MatStore(mcalls[cl].user, mcalls[cl].m)
    /\ mcalls' = [mcalls EXCEPT ![cl] = [@ EXCEPT !.pc = "returned"]]
    /\ mfirst' = FirstReturned(mcalls[cl].user, mcalls[cl].m)

\* MaterialApplication::get_material
GetMaterial(cl, u) ==
    /\ mcalls[cl].pc \in {"idle", "returned"}
    /\ mcalls' = [mcalls EXCEPT ![cl] =
            [pc |-> "returned", op |-> "get", user |-> u, qh |-> NoHint, ph |-> NoHint,
             m |-> MatGet(u), err |-> "", fresh |-> FALSE]]
    /\ UNCHANGED <<materials, mfirst>>

NextMaterial ==
    \/ /\ \E cl \in Callers, u \in MatUsers, qh \in MatQHints, ph \in MatPHints :
              CreateGet(cl, u, qh, ph)
       /\ UNCHANGED <<protoVars, genVars, verVars, fixVars, wire, ts, hcall>>
    \/ /\ \E cl \in Callers : CreateGenerate(cl)
       /\ UNCHANGED <<protoVars, genVars, verVars, fixVars, wire, ts, hcall>>
    \/ /\ \E cl \in Callers : CreateStore(cl)
       /\ UNCHANGED <<protoVars, genVars, verVars, fixVars, wire, ts, hcall>>
    \/ /\ \E cl \in Callers, u \in MatUsers : GetMaterial(cl, u)
       /\ UNCHANGED <<protoVars, genVars, verVars, fixVars, wire, ts, hcall>>

SpecMaterial == Init /\ [][NextMaterial]_vars

-----------------------------------------------------------------------------
(* VerifierApplication<FileParams, MemStorage> (verifier/src/application/handler.rs) *)

\* the material a params file provisions: g = 4 and h = 5 have order 5 modulo 11
FileMaterial == [g |-> 4, h |-> 5, q |-> 5, p |-> 11]

\* FileParams::query
Query(u) == params[u]

\* MemStorage::get_user and MemStorage::get_challenge
GetUser(u) == users[u]
GetChallenge(a) == challenges[a]

\* what provers send: y1, y2 of a secret in [2, q-2], and r1, r2 of a sampled k or the
\* same pair with r2 tampered
RegisterInputs == {RegisterNew(FileMaterial, xv) : xv \in 2..(FileMaterial.q - 2)}
CommitmentInputs ==
    UNION {{[r1 |-> ModPow(FileMaterial.g, kv, FileMaterial.p),
             r2 |-> ModPow(FileMaterial.h, kv, FileMaterial.p)],
            [r1 |-> ModPow(FileMaterial.g, kv, FileMaterial.p),
             r2 |-> (ModPow(FileMaterial.h, kv, FileMaterial.p) + 1) % FileMaterial.p]}
           : kv \in CommitSamples(FileMaterial.q)}

\* the answers s that callers of verify_challenge submit: Answer.s is a signed
\* BigInt, so a negative s is among them
AnswerInputs == (0 - 1)..MaxS

\* a register that skips the material check
MaterialMissing_Never(m) == FALSE

\* register: material.is_none()
MaterialMissing(m) == m = NoMaterial

\* a store_user that overwrites y1 only and keeps the y2 already stored
StoreUser_Merge(u, y1v, y2v) ==
    [users EXCEPT ![u] = [present |-> TRUE, y1 |-> y1v,
                          y2 |-> IF users[u].present THEN users[u].y2 ELSE y2v]]

\* a store_user that keeps the Register a user already has
StoreUser_KeepFirst(u, y1v, y2v) ==
    IF users[u].present THEN users
    ELSE [users EXCEPT ![u] = [present |-> TRUE, y1 |-> y1v, y2 |-> y2v]]

\* MemStorage::store_user: DashMap::insert replaces the whole Register
StoreUser(u, y1v, y2v) ==
    [users EXCEPT ![u] = [present |-> TRUE, y1 |-> y1v, y2 |-> y2v]]

\* VerifierApplication::register
VerifierRegister(u, y1v, y2v) ==
    /\ IF MaterialMissing(Query(u))
       THEN /\ resp' = [op |-> "register", user |-> u, v1 |-> y1v, v2 |-> y2v,
                        auth |-> 0, c |-> 0, old |-> NoRegister, reads |-> 0, writes |-> 0,
                        ret |-> "User material not found. You should generate material first."]
            /\ UNCHANGED users
       ELSE /\ users' = StoreUser(u, y1v, y2v)
            /\ resp' = [op |-> "register", user |-> u, v1 |-> y1v, v2 |-> y2v,
                        auth |-> 0, c |-> 0, old |-> GetUser(u),
                        reads |-> 0, writes |-> 1, ret |-> "ok"]
    /\ UNCHANGED <<params, challenges, issued>>

\* a ChallengeStore that keeps the commitment in the wrong order
ChallengeStoreOf_Swapped(u, r1v, r2v, cv) ==
    [present |-> TRUE, user |-> u, r1 |-> r2v, r2 |-> r1v, c |-> cv]

\* ChallengeStore::builder().challenge(challenge).response(response).build()
ChallengeStoreOf(u, r1v, r2v, cv) ==
    [present |-> TRUE, user |-> u, r1 |-> r1v, r2 |-> r2v, c |-> cv]

\* a Uuid::new_v4 that can return an auth_id it returned before
FreshAuthIds_Reused == AuthIds

\* auth_ids Uuid::new_v4 has not returned yet
FreshAuthIds == {a \in AuthIds : ~challenges[a].present}

\* VerifierApplication::create_challenge
CreateChallenge(u, r1v, r2v) ==
    /\ Query(u) # NoMaterial => FreshAuthIds # {}
    /\ IF Query(u) = NoMaterial
       THEN /\ resp' = [op |-> "create_challenge", user |-> u, v1 |-> r1v, v2 |-> r2v,
                        auth |-> 0, c |-> 0, old |-> NoRegister,
                        reads |-> 0, writes |-> 0, ret |-> "Material not found"]
            /\ UNCHANGED <<challenges, issued>>
       ELSE IF ChallengeSamples(Query(u).q) = {}
       THEN /\ resp' = [op |-> "create_challenge", user |-> u, v1 |-> r1v, v2 |-> r2v,
                        auth |-> 0, c |-> 0, old |-> NoRegister,
                        reads |-> 0, writes |-> 0, ret |-> "panic"]
            /\ UNCHANGED <<challenges, issued>>
       ELSE \E cv \in ChallengeSamples(Query(u).q), a \in FreshAuthIds :
                /\ challenges' = [challenges EXCEPT ![a] = ChallengeStoreOf(u, r1v, r2v, cv)]
                /\ issued' = issued \cup {[auth |-> a, user |-> u, r1 |-> r1v, r2 |-> r2v, c |-> cv]}
                /\ resp' = [op |-> "create_challenge", user |-> u, v1 |-> r1v, v2 |-> r2v,
                            auth |-> a, c |-> cv, old |-> NoRegister,
                            reads |-> 0, writes |-> 1, ret |-> "ok"]
    /\ UNCHANGED <<params, users>>

\* a verify that reports a missing challenge as a failed verification
VerifyChallengeRet_MissingIsFailed(a, sv) ==
    LET ch == GetChallenge(a)
    IN  IF ~ch.present THEN "ChallengeVerificationFailed"
        ELSE IF Query(ch.user) = NoMaterial THEN "Material not found for user"
        ELSE IF ~GetUser(ch.user).present THEN "User not found"
        ELSE IF ModPowPanics(sv, Query(ch.user).p) \/ ModPowPanics(ch.c, Query(ch.user).p)
        THEN "panic"
        ELSE VerificationResult(Query(ch.user), GetUser(ch.user).y1, GetUser(ch.user).y2,
                                ch.r1, ch.r2, ch.c, sv)

\* a verify that checks an unregistered user against y1 = y2 = 1
VerifyChallengeRet_UnregisteredIsOne(a, sv) ==
    LET ch == GetChallenge(a)
    IN  IF ~ch.present THEN "Challenge not found"
        ELSE IF Query(ch.user) = NoMaterial THEN "Material not found for user"
        ELSE IF ModPowPanics(sv, Query(ch.user).p) \/ ModPowPanics(ch.c, Query(ch.user).p)
        THEN "panic"
        ELSE IF ~GetUser(ch.user).present
        THEN VerificationResult(Query(ch.user), 1, 1, ch.r1, ch.r2, ch.c, sv)
        ELSE VerificationResult(Query(ch.user), GetUser(ch.user).y1, GetUser(ch.user).y2,
                                ch.r1, ch.r2, ch.c, sv)

\* what VerifierApplication::verify_challenge returns: the first missing
\* prerequisite as an error, else the VerificationResult; "panic" when a modpow
\* of the verification aborts the call
VerifyChallengeRet(a, sv) ==
    LET ch == GetChallenge(a)
    IN  IF ~ch.present THEN "Challenge not found"
        ELSE IF Query(ch.user) = NoMaterial THEN "Material not found for user"
        ELSE IF ~GetUser(ch.user).present THEN "User not found"
        ELSE IF ModPowPanics(sv, Query(ch.user).p) \/ ModPowPanics(ch.c, Query(ch.user).p)
        THEN "panic"
        ELSE VerificationResult(Query(ch.user), GetUser(ch.user).y1, GetUser(ch.user).y2,
                                ch.r1, ch.r2, ch.c, sv)

\* a verify that loads the challenge and the registration before it checks
\* that either exists
VerifyChallengeReads_Eager(a) ==
    IF GetChallenge(a).present /\ Query(GetChallenge(a).user) = NoMaterial THEN 1 ELSE 2

\* the reads verify_challenge makes against MemStorage: get_challenge, and
\* get_user once the challenge and the material were found
VerifyChallengeReads(a) ==
    LET ch == GetChallenge(a)
    IN  IF ~ch.present THEN 1
        ELSE IF Query(ch.user) = NoMaterial THEN 1
        ELSE 2

\* VerifierApplication::verify_challenge
VerifyChallenge(a, sv) ==
    /\ resp' = [op |-> "verify_challenge", user |-> "", v1 |-> sv, v2 |-> 0,
                auth |-> a, c |-> 0, old |-> NoRegister,
                reads |-> VerifyChallengeReads(a), writes |-> 0,
                ret |-> VerifyChallengeRet(a, sv)]
    /\ UNCHANGED <<params, users, challenges, issued>>

\* VerifierApplication::new_with_config: FileParams loaded from the file,
\* MemStorage empty
InitVerifier ==
    /\ ProtoInit /\ GenInit
    /\ params \in [VUsers -> {NoMaterial, FileMaterial}]
    /\ StorageInit
    /\ MatInit
    /\ FixInit
    /\ WireInit
    /\ TypeStateInit
    /\ HandlerInit

NextVerifier ==
    \/ /\ \E u \in VUsers, reg \in RegisterInputs : VerifierRegister(u, reg.y1, reg.y2)
       /\ UNCHANGED <<protoVars, genVars, matVars, fixVars, wire, ts, hcall>>
    \/ /\ \E u \in VUsers, cm \in CommitmentInputs : CreateChallenge(u, cm.r1, cm.r2)
       /\ UNCHANGED <<protoVars, genVars, matVars, fixVars, wire, ts, hcall>>
    \/ /\ \E a \in AuthIds, sv \in AnswerInputs : VerifyChallenge(a, sv)
       /\ UNCHANGED <<protoVars, genVars, matVars, fixVars, wire, ts, hcall>>

SpecVerifier == InitVerifier /\ [][NextVerifier]_vars

-----------------------------------------------------------------------------
(* VerifierApplication<M, S> for any Params M and VerifierStorage S, as the  *)
(* unit tests of handler.rs drive it with MockParams and MockVerifierStorage:*)
(* every port call answers Ok(Some(v)), Ok(None) or Err as the test decides. *)

\* materials with the smallest orders: q = 2, 3 and 4
TinyMaterials ==
    {[g |-> 4, h |-> 4, q |-> 2, p |-> 5],
     [g |-> 2, h |-> 4, q |-> 3, p |-> 7],
     [g |-> 2, h |-> 3, q |-> 4, p |-> 5]}

MockMaterials == {FileMaterial} \cup TinyMaterials

QueryAnswers ==
    {AnsErr(NoMaterial), AnsNone(NoMaterial)} \cup {AnsSome(m) : m \in MockMaterials}

StoreAnswers == {"ok", "err"}

GetChallengeAnswers ==
    {AnsErr(NoChallenge), AnsNone(NoChallenge)}
    \cup {AnsSome(ChallengeStoreOf("u1", cm.r1, cm.r2, cv)) :
              cm \in CommitmentInputs, cv \in ChallengeSamples(FileMaterial.q)}

GetUserAnswers ==
    {AnsErr(NoRegister), AnsNone(NoRegister)}
    \cup {AnsSome([present |-> TRUE, y1 |-> reg.y1, y2 |-> reg.y2]) : reg \in RegisterInputs}

\* register: query, then store_user when the material exists
HandlerRegister(q, st) ==
    hcall' = [NoHandlerCall EXCEPT
                 !.op = "register", !.query = q, !.store = st,
                 !.ports = IF q.st = "some" THEN <<"query", "store_user">> ELSE <<"query">>,
                 !.stored = (q.st = "some" /\ st = "ok"),
                 !.ret = IF q.st = "err" THEN "params error"
                         ELSE IF q.st = "none"
                         THEN "User material not found. You should generate material first."
                         ELSE IF st = "err" THEN "storage error"
                         ELSE "ok"]

\* a create_challenge that answers with the minted challenge although
\* store_challenge failed
CreateChallengeRet_IgnoresStore(q, st) ==
    IF q.st = "err" THEN "params error"
    ELSE IF q.st = "none" THEN "Material not found"
    ELSE IF ChallengeSamples(q.v.q) = {} THEN "panic"
    ELSE "ok"

\* what create_challenge returns: the error of query, "Material not found",
\* a panic of gen_bigint_range on an empty range, the error of
\* store_challenge, or the response
CreateChallengeRet(q, st) ==
    IF q.st = "err" THEN "params error"
    ELSE IF q.st = "none" THEN "Material not found"
    ELSE IF ChallengeSamples(q.v.q) = {} THEN "panic"
    ELSE IF st = "err" THEN "storage error"
    ELSE "ok"

\* create_challenge: query, the Material -> Challenge transition, store_challenge
HandlerCreateChallenge(q, st) ==
    LET ret == CreateChallengeRet(q, st)
        minted == q.st = "some" /\ ChallengeSamples(q.v.q) # {}
    IN  \E a \in AuthIds, cv \in (IF minted THEN ChallengeSamples(q.v.q) ELSE {0}) :
            hcall' = [NoHandlerCall EXCEPT
                         !.op = "create_challenge", !.query = q, !.store = st,
                         !.ports = IF minted THEN <<"query", "store_challenge">> ELSE <<"query">>,
                         !.stored = (minted /\ st = "ok"),
                         !.auth = IF ret = "ok" THEN a ELSE 0,
                         !.c = IF ret = "ok" THEN cv ELSE 0,
                         !.ret = ret]

\* a verify_challenge that looks for the registration before the material
HandlerVerifyStage_UserFirst(gc, q, gu) ==
    IF gc.st # "some" THEN 1
    ELSE IF gu.st # "some" THEN 3
    ELSE IF q.st # "some" THEN 2
    ELSE 4

\* how far verify_challenge gets: it stops at get_challenge (1), at query (2),
\* at get_user (3), or reaches the verification (4)
HandlerVerifyStage(gc, q, gu) ==
    IF gc.st # "some" THEN 1
    ELSE IF q.st # "some" THEN 2
    ELSE IF gu.st # "some" THEN 3
    ELSE 4

\* what verify_challenge returns
HandlerVerifyRet(gc, q, gu, sv) ==
    LET stage == HandlerVerifyStage(gc, q, gu)
    IN  IF stage = 1 THEN (IF gc.st = "err" THEN "storage error" ELSE "Challenge not found")
        ELSE IF stage = 2
        THEN (IF q.st = "err" THEN "params error" ELSE "Material not found for user")
        ELSE IF stage = 3 THEN (IF gu.st = "err" THEN "storage error" ELSE "User not found")
        ELSE IF ModPowPanics(sv, q.v.p) \/ ModPowPanics(gc.v.c, q.v.p) THEN "panic"
        ELSE VerificationResult(q.v, gu.v.y1, gu.v.y2, gc.v.r1, gc.v.r2, gc.v.c, sv)

\* verify_challenge: get_challenge, query, get_user, the verification
HandlerVerifyChallenge(gc, q, gu, sv) ==
    LET stage == HandlerVerifyStage(gc, q, gu)
    IN  hcall' = [NoHandlerCall EXCEPT
                     !.op = "verify_challenge", !.getc = gc, !.query = q, !.getu = gu,
                     !.s = sv,
                     !.ports = IF stage = 1 THEN <<"get_challenge">>
                               ELSE IF stage = 2 THEN <<"get_challenge", "query">>
                               ELSE <<"get_challenge", "query", "get_user">>,
                     !.ret = HandlerVerifyRet(gc, q, gu, sv)]

NextHandler ==
    \/ /\ \E q \in QueryAnswers, st \in StoreAnswers : HandlerRegister(q, st)
       /\ UNCHANGED <<protoVars, genVars, verVars, matVars, fixVars, wire, ts>>
    \/ /\ \E q \in QueryAnswers, st \in StoreAnswers : HandlerCreateChallenge(q, st)
       /\ UNCHANGED <<protoVars, genVars, verVars, matVars, fixVars, wire, ts>>
    \/ /\ \E gc \in GetChallengeAnswers, q \in QueryAnswers, gu \in GetUserAnswers,
             sv \in AnswerInputs : HandlerVerifyChallenge(gc, q, gu, sv)
       /\ UNCHANGED <<protoVars, genVars, verVars, matVars, fixVars, wire, ts>>

SpecHandler == Init /\ [][NextHandler]_vars

-----------------------------------------------------------------------------
(* The prover binary (prover/src/main.rs) against the verifier handlers.     *)
(* x, k and the Commitment stay in the prover's variables; wire holds what   *)
(* it hands to the gRPC client.  Every number of the model fits i64 and      *)
(* i32, so to_i64 and to_i32 return the number itself.                       *)

\* conf.user
ProverUser == "u1"

\* zkp_auth::RegisterRequest { user, y1, y2 }
RegisterRequest(u, reg) ==
    [msg |-> "RegisterRequest", user |-> u, y1 |-> reg.y1, y2 |-> reg.y2]

\* a challenge request that also ships the k of the Commitment
AuthenticationChallengeRequest_WithK(u, commitment) ==
    [msg |-> "AuthenticationChallengeRequest", user |-> u,
     r1 |-> commitment.r1, r2 |-> commitment.r2, k |-> commitment.k]

\* zkp_auth::AuthenticationChallengeRequest { user, r1, r2 } built from the
\* Commitment { material, r1, r2, k }
AuthenticationChallengeRequest(u, commitment) ==
    [msg |-> "AuthenticationChallengeRequest", user |-> u,
     r1 |-> commitment.r1, r2 |-> commitment.r2]

\* AuthenticationAnswerRequest { auth_id, s } built from the VerificationRequest
AuthenticationAnswerRequest(verification) ==
    [msg |-> "AuthenticationAnswerRequest", auth_id |-> verification.auth_id,
     s |-> verification.s]

\* main up to service.register(register).await?: the material of the file,
\* x of the configuration, Register::new, the register call
ProverRegister(xv) ==
    /\ pc = "init"
    /\ material' = FileMaterial
    /\ src' = "file"
    /\ x' = xv
    /\ y1' = RegisterNew(FileMaterial, xv).y1
    /\ y2' = RegisterNew(FileMaterial, xv).y2
    /\ wire' = Append(wire, RegisterRequest(ProverUser, RegisterNew(FileMaterial, xv)))
    /\ VerifierRegister(ProverUser, y1', y2')
    /\ pc' = IF resp'.ret = "ok" THEN "registered" ELSE "aborted"
    /\ UNCHANGED <<k, r1, r2, c, xr, s, result>>

\* main up to create_authentication_challenge(auth_req).await?: the commit
\* transition, the challenge request, and the c of the response
ProverChallenge ==
    /\ pc = "registered"
    /\ IF CommitSamples(material.q) = {}
       THEN /\ pc' = "aborted"
            /\ UNCHANGED <<k, r1, r2, c, wire, verVars>>
       ELSE \E kv \in CommitSamples(material.q) :
                LET commitment == [material |-> material,
                                   r1 |-> ModPow(material.g, kv, material.p),
                                   r2 |-> ModPow(material.h, kv, material.p),
                                   k |-> kv]
                IN  /\ k' = commitment.k
                    /\ r1' = commitment.r1
                    /\ r2' = commitment.r2
                    /\ wire' = Append(wire, AuthenticationChallengeRequest(ProverUser, commitment))
                    /\ CreateChallenge(ProverUser, commitment.r1, commitment.r2)
                    /\ c' = resp'.c
                    /\ pc' = IF resp'.ret = "ok" THEN "challenged" ELSE "aborted"
    /\ UNCHANGED <<src, material, x, y1, y2, xr, s, result>>

\* the rest of main: the response transition over ChallengeResponse
\* { challenge, material, x, k } and the verify call
ProverAnswer ==
    /\ pc = "challenged"
    /\ LET verification == [auth_id |-> resp.auth, s |-> ResponseS(k, c, x, material.q)]
       IN  /\ xr' = x
           /\ s' = verification.s
           /\ wire' = Append(wire, AuthenticationAnswerRequest(verification))
           /\ VerifyChallenge(verification.auth_id, verification.s)
           /\ result' = resp'.ret
           /\ pc' = "done"
    /\ UNCHANGED <<src, material, x, y1, y2, k, r1, r2, c>>

\* the values conf.x is given in the model
ProverSecrets == 0..MaxX

NextProver ==
    \/ /\ \E xv \in ProverSecrets : ProverRegister(xv)
       /\ UNCHANGED <<genVars, matVars, fixVars, ts, hcall>>
    \/ /\ ProverChallenge
       /\ UNCHANGED <<genVars, matVars, fixVars, ts, hcall>>
    \/ /\ ProverAnswer
       /\ UNCHANGED <<genVars, matVars, fixVars, ts, hcall>>

SpecProver == InitVerifier /\ [][NextProver]_vars

-----------------------------------------------------------------------------
(* ChallengeTransition (verifier/src/domain/verifier.rs): the fixed-width    *)
(* verification.  i64 and i32 are two's-complement; the model keeps the two  *)
(* widths apart and scales them to WideBits and NarrowBits so that every     *)
(* intermediate value stays inside TLC's integers.                           *)

\* i64, scaled: values in -(2^(WideBits-1)) .. 2^(WideBits-1) - 1
WideBits == 30
\* i32 / u32, scaled: values in -(2^(NarrowBits-1)) .. 2^(NarrowBits-1) - 1
NarrowBits == 6

RECURSIVE TwoTo(_)
TwoTo(n) == IF n = 0 THEN 1 ELSE 2 * TwoTo(n - 1)

PowersOfTwo == [i \in 0..WideBits |-> TwoTo(i)]
WideModulus == PowersOfTwo[WideBits]
WideMax == PowersOfTwo[WideBits - 1] - 1
NarrowModulus == PowersOfTwo[NarrowBits]

Abs(v) == IF v < 0 THEN 0 - v ELSE v

\* two's-complement reading of a residue 0 .. WideModulus - 1
ToSigned(u) == IF u > WideMax THEN u - WideModulus ELSE u
ToUnsigned(v) == v % WideModulus

\* `s as u32`: the bit pattern of an i32 read as unsigned
AsU32(v) == v % NarrowModulus

\* a * b modulo WideModulus, one bit of b at a time from bit i upwards:
\* a * 2^i modulo 2^WideBits is the low WideBits - i bits of a shifted left
RECURSIVE MulMod(_, _, _)
MulMod(a, b, i) ==
    IF i = WideBits THEN 0
    ELSE LET term == IF (b \div PowersOfTwo[i]) % 2 = 1
                        THEN (a % PowersOfTwo[WideBits - i]) * PowersOfTwo[i]
                        ELSE 0
         IN  (term + MulMod(a, b, i + 1)) % WideModulus

\* the exact product leaves the i64 range, which is when `*` panics in a
\* build with overflow checks
MulOverflows(a, b) ==
    /\ a # 0
    /\ b # 0
    /\ IF (a < 0) = (b < 0)
          THEN Abs(a) > WideMax \div Abs(b)
          ELSE Abs(a) > (WideMax + 1) \div Abs(b)

\* i64::wrapping_mul, what `*` does in a build without overflow checks: the
\* exact product where it fits, its low WideBits bits where it does not
WrappingMul(a, b) ==
    IF MulOverflows(a, b)
       THEN ToSigned(MulMod(ToUnsigned(a), ToUnsigned(b), 0))
       ELSE a * b

\* checked product: the wrapped value and whether an overflow happened
Mul(a, b) == [v |-> WrappingMul(a.v, b.v), ov |-> a.ov \/ b.ov \/ MulOverflows(a.v, b.v)]

\* the loop of i64::pow: square the base and halve the exponent, multiplying
\* the accumulator in at every odd exponent
RECURSIVE PowLoop(_, _, _)
PowLoop(base, acc, exp) ==
    IF exp = 1 THEN Mul(acc, base)
    ELSE CHOOSE m \in {PowLoop(b2, a2, exp \div 2) :
                          b2 \in {Mul(base, base)},
                          a2 \in {IF exp % 2 = 1 THEN Mul(acc, base) ELSE acc}} : TRUE

\* i64::pow(self, exp: u32)
Pow(base, exp) ==
    IF exp = 0 THEN [v |-> 1, ov |-> FALSE]
    ELSE PowLoop([v |-> base, ov |-> FALSE], [v |-> 1, ov |-> FALSE], exp)

\* `%` of Rust: the remainder of the division truncated toward zero
Rem(a, m) == IF a < 0 THEN 0 - ((0 - a) % Abs(m)) ELSE a % Abs(m)

\* the two build profiles: with overflow checks an overflow panics, without
\* them it wraps
Builds == {"overflow-checks", "wrapping"}

\* (base.pow(s as u32) * y.pow(c as u32)) % p of lines 233-234
Prime(base, y, sv, cv) ==
    CHOOSE m \in {Mul(a, b) : a \in {Pow(base, AsU32(sv))}, b \in {Pow(y, AsU32(cv))}} : TRUE

ChallengeVerified == "ChallengeVerified"
ChallengeVerificationFailed == "ChallengeVerificationFailed"

\* outcome of ChallengeTransition<ChallengeVerification>::change
ChangeOutcome(in, build) ==
    LET p1 == Prime(in.g, in.y1, in.s, in.c)
        p2 == Prime(in.h, in.y2, in.s, in.c)
    IN  IF build = "overflow-checks" /\ p1.ov THEN "panic"
        ELSE IF in.p = 0 THEN "panic"
        ELSE IF build = "overflow-checks" /\ p2.ov THEN "panic"
        ELSE IF in.r1 = Rem(p1.v, in.p) /\ in.r2 = Rem(p2.v, in.p)
                THEN ChallengeVerified
                ELSE ChallengeVerificationFailed

\* Uuid::new_v4(): an identifier that was not handed out before
FreshSessionIds == (1..MaxSession) \ sessions

\* the SessionId the result carries: only ChallengeVerified has one
SessionOf_Always(outcome, id) == id

SessionOf(outcome, id) == IF outcome = ChallengeVerified THEN id ELSE NoSession

\* the values of tests::test_challenge_transition_change
TestFixture == [q |-> 7, p |-> 11, g |-> 4, h |-> 5, x |-> 3, c |-> 2]

\* the arguments the tests hand to change: rand_k in 0..=p, the answer
\* s = (rand_k - c * x) % q with modulus p, or s + 1 with modulus p - 2
ChangeInputs ==
    LET f == TestFixture
    IN  { [g |-> f.g, h |-> f.h, p |-> f.p - d.dp,
           y1 |-> Rem(Pow(f.g, f.x).v, f.p), y2 |-> Rem(Pow(f.h, f.x).v, f.p),
           r1 |-> Rem(Pow(f.g, rand_k).v, f.p), r2 |-> Rem(Pow(f.h, rand_k).v, f.p),
           c |-> f.c, s |-> Rem(rand_k - f.c * f.x, f.q) + d.ds]
          : rand_k \in 0..f.p, d \in {[ds |-> 0, dp |-> 0], [ds |-> 1, dp |-> 2]} }

ChallengeVerificationChange ==
    \E in \in ChangeInputs, build \in Builds, id \in FreshSessionIds :
        LET outcome == ChangeOutcome(in, build)
            session == SessionOf(outcome, id)
        IN  /\ fixed' = [g |-> in.g, h |-> in.h, p |-> in.p, y1 |-> in.y1, y2 |-> in.y2,
                         r1 |-> in.r1, r2 |-> in.r2, c |-> in.c, s |-> in.s,
                         build |-> build, outcome |-> outcome, session |-> session]
            /\ sessions' = IF session = NoSession THEN sessions ELSE sessions \cup {session}

NextFixed ==
    ChallengeVerificationChange /\ UNCHANGED <<protoVars, genVars, verVars, matVars, wire, ts, hcall>>

SpecFixed == Init /\ [][NextFixed]_vars

-----------------------------------------------------------------------------
(* The type-state wrapper (cp.rs): ProtocolStep, ProtocolState<S>, From<S>   *)
(* and the change implementations, as a client of the crate can use them.    *)
(* ts.trail records every construction and transition the client made.       *)

\* the types that implement ProtocolStep, in the order of a protocol round
ProtocolOrder ==
    <<"Register", "Commitment", "Material", "Challenge", "ChallengeResponse",
      "VerificationRequest", "Verification", "VerificationResult">>

ProtocolSteps == {ProtocolOrder[i] : i \in DOMAIN ProtocolOrder}

\* the change implementations with one that goes from Register to Challenge
ChangeImpls_Skipping ==
    {<<"Register", "Commitment">>, <<"Register", "Challenge">>,
     <<"Material", "Challenge">>,
     <<"ChallengeResponse", "VerificationRequest">>,
     <<"Verification", "VerificationResult">>}

\* the change implementations: ProtocolState<S> -> ProtocolState<NewState>
ChangeImpls ==
    {<<"Register", "Commitment">>,
     <<"Material", "Challenge">>,
     <<"ChallengeResponse", "VerificationRequest">>,
     <<"Verification", "VerificationResult">>}

\* impl<S: ProtocolStep> From<S> for ProtocolState<S>: every state struct has
\* public fields and a builder, so a client can wrap any of them
ProtocolStateFrom(step) ==
    /\ Len(ts.trail) < MaxTrail
    /\ ts' = [state |-> step,
              trail |-> Append(ts.trail, [op |-> "from", of |-> step, to |-> step])]

\* change(self): consumes the ProtocolState and returns the next one
ProtocolStateChange ==
    /\ Len(ts.trail) < MaxTrail
    /\ \E impl \in ChangeImpls :
          /\ impl[1] = ts.state
          /\ ts' = [state |-> impl[2],
                    trail |-> Append(ts.trail, [op |-> "change", of |-> impl[1], to |-> impl[2]])]

NextTypeState ==
    \/ /\ \E step \in ProtocolSteps : ProtocolStateFrom(step)
       /\ UNCHANGED <<protoVars, genVars, verVars, matVars, fixVars, wire, hcall>>
    \/ /\ ProtocolStateChange
       /\ UNCHANGED <<protoVars, genVars, verVars, matVars, fixVars, wire, hcall>>

SpecTypeState == Init /\ [][NextTypeState]_vars

-----------------------------------------------------------------------------
(* Properties of the protocol round (checked under Spec) *)

\* e has multiplicative order exactly n modulo p
HasOrder(e, n, p) ==
    /\ ModPow(e, n, p) = 1
    /\ \A i \in 1..(n - 1) : ModPow(e, i, p) # 1

\* q is prime and g and h each have order exactly q modulo p
ValidGroup(m) ==
    /\ IsPrime(m.q)
    /\ HasOrder(m.g, m.q, m.p)
    /\ HasOrder(m.h, m.q, m.p)

Responded == pc \in {"responded", "done"}
Honest == Responded /\ xr = x /\ s = ResponseS(k, c, x, material.q)

\* the submitted s is the honest response plus 1
Tampered == Responded /\ xr = x /\ s = ResponseS(k, c, x, material.q) + 1

\* the two equalities of the verification, written out from the state
Eq1 == r1 = (ModPow(material.g, s, material.p) * ModPow(y1, c, material.p)) % material.p
Eq2 == r2 = (ModPow(material.h, s, material.p) * ModPow(y2, c, material.p)) % material.p

\* C1 (completeness): in a group with q prime and g, h of order exactly q
\* modulo p, with a secret x in [2, q-2], the honest sequence Register::new,
\* commit, challenge, respond, verify ends in ChallengeVerifiedSuccess for
\* every k and c the transitions sample.
C1_Completeness ==
    (/\ pc = "done"
     /\ ValidGroup(material)
     /\ x \in 2..(material.q - 2)
     /\ Honest)
    => result = "ChallengeVerifiedSuccess"

\* C1 witness: an honest round in a valid group that took the k <= c*x branch
\* of the response and was accepted
C1_Witness ==
    /\ pc = "done"
    /\ ValidGroup(material)
    /\ x \in 2..(material.q - 2)
    /\ Honest
    /\ k <= c * x
    /\ result = "ChallengeVerifiedSuccess"

\* C2: the verification returns ChallengeVerifiedSuccess exactly when both
\* r1 = g^s * y1^c mod p and r2 = h^s * y2^c mod p hold; when exactly one of
\* them holds the result is ChallengeVerificationFailed.
C2_BothEqualities ==
    pc = "done" =>
        /\ (result = "ChallengeVerifiedSuccess") <=> (Eq1 /\ Eq2)
        /\ (Eq1 # Eq2) => result = "ChallengeVerificationFailed"

\* C2 witness: a verified round in which exactly one equality holds
C2_Witness ==
    /\ pc = "done"
    /\ Eq1 # Eq2
    /\ result = "ChallengeVerificationFailed"

\* C3 (soundness against a wrong secret): in a valid group, a response
\* computed from x' not congruent to x modulo q (same k as the stored r1, r2)
\* is rejected for every k and every c the transitions sample.
C3_WrongSecretFails ==
    (/\ pc = "done"
     /\ ValidGroup(material)
     /\ (xr - x) % material.q # 0)
    => result = "ChallengeVerificationFailed"

\* C3 witness: a rejected response from a wrong secret in a valid group
C3_Witness ==
    /\ pc = "done"
    /\ ValidGroup(material)
    /\ (xr - x) % material.q # 0
    /\ result = "ChallengeVerificationFailed"

\* C4 (range invariant): the s produced by the response transition
\* satisfies 0 <= s < q whatever the sign of k - c*x.
C4_ResponseInRange ==
    (Responded /\ material.q >= 2) => (0 <= s /\ s < material.q)

\* C28 (checked under SpecResponse): for all non-negative k, c, x and every
\* q >= 2 the response transition returns an s congruent to k - c*x modulo
\* q, in the branch k > c*x and in the branch k <= c*x.
C28_ResponseCongruent ==
    (pc = "responded" /\ material.q >= 2)
    => (s - (k - c * xr)) % material.q = 0

\* a response of the branch k <= c*x whose difference is not a multiple of q
C28_Witness ==
    /\ pc = "responded"
    /\ material.q >= 2
    /\ k < c * xr
    /\ (c * xr - k) % material.q # 0
    /\ s = material.q - ((c * xr - k) % material.q)

\* C29: the commit transition draws one k from [2, q-2] and produces
\* r1 = g^k mod p and r2 = h^k mod p from that same k; the k carried in the
\* Commitment is the one used for r1 and r2, and the material is carried
\* over unchanged.
C29_CommitFromOneK ==
    [][(pc = "registered" /\ pc' = "committed") =>
          /\ k' \in 2..(material.q - 2)
          /\ r1' = ModPow(material.g, k', material.p)
          /\ r2' = ModPow(material.h, k', material.p)
          /\ material' = material]_vars

\* a Commitment made from the largest k the transition draws, over a group
\* in which g and h differ
C29_Witness ==
    /\ pc = "committed"
    /\ k = material.q - 3
    /\ k > 2
    /\ material.g # material.h
    /\ r1 = ModPow(material.g, k, material.p)
    /\ r2 = ModPow(material.h, k, material.p)
    /\ r1 # r2

\* C30: every challenge value c minted by the Material -> Challenge
\* transition satisfies 2 <= c <= q-1, so c is never congruent to 0 modulo q.
C30_ChallengeInRange ==
    [][(pc = "committed" /\ pc' = "challenged") =>
          /\ 2 <= c'
          /\ c' <= material.q - 1
          /\ c' % material.q # 0]_vars

\* the largest challenge the transition draws has been minted
C30_Witness ==
    /\ pc = "challenged"
    /\ c = material.q - 2
    /\ c > 2

\* C38 (total over small q): over every material with q >= 2 the
\* Register -> Commitment transition and the Material -> Challenge transition
\* of the round return a value and never abort on an empty sampling range,
\* and a create_challenge whose query answered such a material returns a
\* value or an error.
C38_TransitionsTotal ==
    /\ (pc = "aborted" => material.q < 2)
    /\ (/\ hcall.op = "create_challenge"
        /\ hcall.query.st = "some"
        /\ hcall.query.v.q >= 2)
       => hcall.ret # "panic"

\* C7: over a Material produced by Material::generate(None), the honest
\* sequence commit, challenge, respond, verify ends in
\* ChallengeVerifiedSuccess for every k and c the transitions sample.
C7_DefaultMaterialCompleteness ==
    (pc = "done" /\ src = "default" /\ Honest)
    => result = "ChallengeVerifiedSuccess"

\* C20: in an otherwise honest round over a group with g not congruent to 1
\* modulo p, submitting s + 1 instead of the honest response s makes the
\* verification return ChallengeVerificationFailed.
C20_IncrementedResponseFails ==
    (pc = "done" /\ Tampered /\ material.g % material.p # 1)
    => result = "ChallengeVerificationFailed"

\* C20 amended: in an otherwise honest round over a group with q prime and g
\* of order exactly q modulo p, submitting s + 1 instead of the honest
\* response s makes the verification return ChallengeVerificationFailed.
C20_IncrementedResponseFails_OrderQ ==
    (/\ pc = "done"
     /\ Tampered
     /\ IsPrime(material.q)
     /\ HasOrder(material.g, material.q, material.p))
    => result = "ChallengeVerificationFailed"

\* C20 witness: a rejected s + 1 where g has order q, and h does not and
\* would by itself have accepted s + 1
C20_Witness ==
    /\ pc = "done"
    /\ Tampered
    /\ IsPrime(material.q)
    /\ HasOrder(material.g, material.q, material.p)
    /\ Eq2
    /\ result = "ChallengeVerificationFailed"

-----------------------------------------------------------------------------
(* Properties of the generator (checked under SpecGen) *)

\* C5 (generator validity): for every Material generate returns, g^q mod p = 1
\* and h^q mod p = 1 and no exponent 0 < e < q gives 1: g and h have order
\* exactly q modulo p.
C5_GeneratorValidity ==
    gen_result = "ok" =>
        /\ HasOrder(material.g, material.q, material.p)
        /\ HasOrder(material.h, material.q, material.p)

\* C6 (end to end): over every Material generate returns, an honest prover
\* with a secret x in [2, q-2] who registers y1, y2 and runs commit,
\* challenge, respond and verify obtains ChallengeVerifiedSuccess.
C6_EndToEnd ==
    (/\ pc = "done"
     /\ src = "generated"
     /\ x \in 2..(material.q - 2)
     /\ Honest)
    => result = "ChallengeVerifiedSuccess"

\* no candidate in [2, q-1] passes the generator test
NoCandidatePasses(q) ==
    /\ GroupCandidates(q) # {}
    /\ \A g \in GroupCandidates(q) : ~VerifyGenerator(g, q)

C15_SearchCancelledOnTimeout ==
    gen_result = "Timeout in generating group" => task # "running"

\* C16: every Material generate returns satisfies 1 < g < p and 1 < h < p.
C16_GeneratorsBelowModulus ==
    gen_result = "ok" =>
        /\ 1 < material.g /\ material.g < material.p
        /\ 1 < material.h /\ material.h < material.p

\* the generator test as specified: q - 1 squarings modulo p, none of which
\* gives 0 or 1
SquaringTestModP(element, q, p) == SquaringLoop(element, p, q - 1)

\* C37 (generator test): once generate has spawned the search over q and p,
\* verify_generator accepts a candidate of [2, q-1] exactly when none of the
\* q - 1 values obtained by squaring it repeatedly modulo p is 0 or 1; and
\* the g and h of a returned Material both pass that test.
C37_GeneratorTestModuloP ==
    /\ task # "none" =>
          \A e \in GroupCandidates(gen_q) :
              VerifyGenerator(e, gen_q) <=> SquaringTestModP(e, gen_q, gen_p)
    /\ gen_result = "ok" =>
          /\ SquaringTestModP(material.g, material.q, material.p)
          /\ SquaringTestModP(material.h, material.q, material.p)


\* C17: when the resolved q equals the resolved p, or q is not prime, or p is
\* not prime, generate returns an error, returns no Material and has spawned
\* neither the search task nor the timeout task.
C17_InvalidHintsRejected ==
    (/\ gen_pc # "idle"
     /\ (gen_q = gen_p \/ ~IsPrime(gen_q) \/ ~IsPrime(gen_p)))
    => /\ gen_pc = "returned"
       /\ gen_result \in {"q and p cannot be the same", "Order is not prime"}
       /\ task = "none"
       /\ timer = "none"
       /\ group_ch = GroupEmpty
       /\ src # "generated"

\* C17 witness: generate has rejected a prime q with a composite p without
\* spawning anything
C17_Witness ==
    /\ gen_pc = "returned"
    /\ IsPrime(gen_q)
    /\ gen_p > 1
    /\ ~IsPrime(gen_p)
    /\ gen_result = "Order is not prime"
    /\ task = "none"
    /\ timer = "none"

-----------------------------------------------------------------------------
(* Properties of the verifier session logic (checked under SpecVerifier) *)

\* C8: register(user, y1, y2) fails when no material exists for user, and
\* then writes nothing to the registration storage; when material exists it
\* succeeds and the Registration is stored under user.
C8_RegisterRequiresMaterial ==
    [][resp'.op = "register" =>
        IF params[resp'.user] = NoMaterial
        THEN resp'.ret # "ok" /\ users' = users
        ELSE /\ resp'.ret = "ok"
             /\ users'[resp'.user] = [present |-> TRUE, y1 |-> resp'.v1, y2 |-> resp'.v2]
             /\ \A u \in VUsers \ {resp'.user} : users'[u] = users[u]]_vars

\* C8 witness: a register call for a user without material has failed while
\* another user, who has material, is registered
C8_Witness ==
    /\ resp.op = "register"
    /\ params[resp.user] = NoMaterial
    /\ resp.ret # "ok"
    /\ ~users[resp.user].present
    /\ \E u \in VUsers : users[u].present

\* C9: once create_challenge(user, r1, r2) has returned (auth_id, c),
\* get_challenge(auth_id) yields a record whose user, r1, r2 are the
\* caller's inputs and whose c is the returned c.
C9_ChallengeStoredAsReturned ==
    \A i \in issued :
        /\ GetChallenge(i.auth).present
        /\ GetChallenge(i.auth).user = i.user
        /\ GetChallenge(i.auth).r1 = i.r1
        /\ GetChallenge(i.auth).r2 = i.r2
        /\ GetChallenge(i.auth).c = i.c

\* C9 witness: create_challenge has just returned for a commitment with
\* r1 # r2, and an earlier challenge is still stored
C9_Witness ==
    /\ resp.op = "create_challenge"
    /\ resp.ret = "ok"
    /\ resp.v1 # resp.v2
    /\ [auth |-> resp.auth, user |-> resp.user, r1 |-> resp.v1, r2 |-> resp.v2, c |-> resp.c]
           \in issued
    /\ Cardinality(issued) = 2

\* C10: verify(auth_id, s) for an auth_id with no stored ChallengeRecord
\* fails with "Challenge not found" and returns neither Verified nor Failed,
\* whatever material and registrations exist; it changes no storage.
C10_UnknownAuthIdNotFound ==
    [][(resp'.op = "verify_challenge" /\ ~GetChallenge(resp'.auth).present) =>
        /\ resp'.ret = "Challenge not found"
        /\ UNCHANGED <<users, challenges>>]_vars

\* C10 witness: verify has failed with "Challenge not found" for an auth_id
\* never issued, while a user with material is registered and has another
\* challenge stored
C10_Witness ==
    /\ resp.op = "verify_challenge"
    /\ ~GetChallenge(resp.auth).present
    /\ resp.ret = "Challenge not found"
    /\ \E a \in AuthIds :
        /\ GetChallenge(a).present
        /\ Query(GetChallenge(a).user) # NoMaterial
        /\ GetUser(GetChallenge(a).user).present

\* the challenge record, its user's material and its user's registration are
\* all present
AllPresent(a) ==
    /\ GetChallenge(a).present
    /\ Query(GetChallenge(a).user) # NoMaterial
    /\ GetUser(GetChallenge(a).user).present

Outcomes == {"ChallengeVerifiedSuccess", "ChallengeVerificationFailed"}

\* C11: whenever the ChallengeRecord, the user's material and the user's
\* Registration are all present, verify returns a non-error result that is
\* either Verified or Failed (a mismatch is Failed, never an error).
C11_FailedNeverError ==
    [][(resp'.op = "verify_challenge" /\ AllPresent(resp'.auth))
        => resp'.ret \in Outcomes]_vars

\* C12 (single use): after one verify call for an auth_id, whatever its
\* outcome, the next verify call for the same auth_id returns
\* "Challenge not found".
C12_ChallengeSingleUse ==
    [][(/\ resp.op = "verify_challenge"
        /\ GetChallenge(resp.auth).present
        /\ resp'.op = "verify_challenge"
        /\ resp'.auth = resp.auth)
        => resp'.ret = "Challenge not found"]_vars

\* C13 (last write wins): a completed register call leaves exactly its own
\* (y1, y2) under its user, whatever was stored before, and no other call
\* changes any registration; so get_user always returns the pair of the last
\* completed register call for that user, never a mix of two calls.
C13_LastWriteWins ==
    [][IF resp'.op = "register" /\ resp'.ret = "ok"
       THEN /\ users'[resp'.user] = [present |-> TRUE, y1 |-> resp'.v1, y2 |-> resp'.v2]
            /\ \A u \in VUsers \ {resp'.user} : users'[u] = users[u]
       ELSE users' = users]_vars

\* C13 witness: a register call has replaced a registration that differed
\* in both y1 and y2, and the stored pair is the new one
C13_Witness ==
    /\ resp.op = "register"
    /\ resp.ret = "ok"
    /\ resp.old.present
    /\ resp.old.y1 # resp.v1
    /\ resp.old.y2 # resp.v2
    /\ GetUser(resp.user) = [present |-> TRUE, y1 |-> resp.v1, y2 |-> resp.v2]

\* C21: a negative s (or a negative stored c) handed to the verification is
\* reported to the caller as an InvalidArgument-class error: the call returns
\* an error, neither Verified nor Failed, and the verification does not abort.
C21_NegativeInputIsInvalidArgument ==
    [][(/\ resp'.op = "verify_challenge"
        /\ AllPresent(resp'.auth)
        /\ (resp'.v1 < 0 \/ GetChallenge(resp'.auth).c < 0))
        => /\ resp'.ret \notin Outcomes
           /\ resp'.ret # "panic"]_vars

C23_DifferentKeysDoNotInterfere ==
    [][/\ resp'.op = "register" =>
              /\ \A u \in VUsers \ {resp'.user} : users'[u] = users[u]
              /\ challenges' = challenges
       /\ resp'.op = "create_challenge" =>
              /\ users' = users
              /\ \A a \in AuthIds : challenges[a].present => challenges'[a] = challenges[a]
       /\ resp'.op = "verify_challenge" =>
              /\ users' = users
              /\ challenges' = challenges
       /\ resp'.op \in {"create_challenge", "verify_challenge"} =>
              \A a \in AuthIds : challenges[a].present =>
                  \/ <<params, users, challenges[a]>>' = <<params, users, challenges[a]>>
                  \/ \A sv \in AnswerInputs :
                         VerifyChallengeRet(a, sv)' = VerifyChallengeRet(a, sv)]_vars

\* C23 witness: a round has just been verified while another round of the
\* same user, with another commitment or challenge, is stored
C23_Witness ==
    /\ resp.op = "verify_challenge"
    /\ resp.ret = "ChallengeVerifiedSuccess"
    /\ \E b \in AuthIds \ {resp.auth} :
        /\ GetChallenge(b).present
        /\ GetChallenge(b).user = GetChallenge(resp.auth).user
        /\ GetChallenge(b).r2 # GetChallenge(resp.auth).r2

\* C33: a Verified outcome for an auth_id implies that a create_challenge
\* call returned that auth_id for some user earlier and that a register call
\* for that user completed before the verify: the auth_id is among the
\* issued ones and its user holds a Registration, which only register stores.
C33_VerifiedImpliesIssuedAndRegistered ==
    (resp.op = "verify_challenge" /\ resp.ret = "ChallengeVerifiedSuccess") =>
        \E i \in issued :
            /\ i.auth = resp.auth
            /\ GetChallenge(resp.auth).user = i.user
            /\ GetUser(i.user).present
            /\ Query(i.user) # NoMaterial

\* a verify has returned Verified while another user is not registered and
\* another auth_id was never issued
C33_Witness ==
    /\ resp.op = "verify_challenge"
    /\ resp.ret = "ChallengeVerifiedSuccess"
    /\ \E i \in issued : i.auth = resp.auth /\ GetUser(i.user).present
    /\ \E u \in VUsers : ~GetUser(u).present
    /\ \E a \in AuthIds : ~GetChallenge(a).present

\* C34: a ChallengeRecord is bound at issuance.  No register,
\* create_challenge or verify call changes a stored record, every stored
\* record is the (user, r1, r2, c) create_challenge returned for its
\* auth_id, and verify computes its result from that r1, r2 and c.
C34_RecordBoundAtIssuance ==
    [][/\ \A a \in AuthIds : GetChallenge(a).present => challenges'[a] = challenges[a]
       /\ \A a \in AuthIds : challenges'[a].present =>
              \E i \in issued' :
                  /\ i.auth = a
                  /\ challenges'[a] = ChallengeStoreOf(i.user, i.r1, i.r2, i.c)
                  /\ \A j \in issued' : j.auth = a => j = i
       /\ (resp'.op = "verify_challenge" /\ resp'.ret \in Outcomes) =>
              \E i \in issued :
                  /\ i.auth = resp'.auth
                  /\ resp'.ret = VerificationResult(Query(i.user), GetUser(i.user).y1,
                                                    GetUser(i.user).y2, i.r1, i.r2, i.c,
                                                    resp'.v1)]_vars

\* a second challenge was issued to the user of a stored one, with another
\* commitment, and a verify of the first has then returned an outcome
C34_Witness ==
    /\ resp.op = "verify_challenge"
    /\ resp.ret \in Outcomes
    /\ \E i, j \in issued :
          /\ i.auth = resp.auth
          /\ j.auth # i.auth
          /\ j.user = i.user
          /\ j.r2 # i.r2

\* the secrets whose Register is the stored pair
SecretsOf(reg) ==
    {xv \in 2..(FileMaterial.q - 2) :
        /\ RegisterNew(FileMaterial, xv).y1 = reg.y1
        /\ RegisterNew(FileMaterial, xv).y2 = reg.y2}

\* the k whose Commitment is the stored r1, r2
RandomnessOf(ch) ==
    {kv \in CommitSamples(FileMaterial.q) :
        /\ ch.r1 = ModPow(FileMaterial.g, kv, FileMaterial.p)
        /\ ch.r2 = ModPow(FileMaterial.h, kv, FileMaterial.p)}

\* a user has just replaced its Registration by a different one
ReRegistered ==
    /\ resp.op = "register"
    /\ resp.ret = "ok"
    /\ resp.old.present
    /\ <<resp.old.y1, resp.old.y2>> # <<resp.v1, resp.v2>>

\* C35: verify checks the response against the Registration stored at verify
\* time.  Once a user has re-registered with a different (y1, y2) while a
\* challenge of that user is stored, a verify of the response computed from
\* the old secret returns Failed and a verify of the response computed from
\* the new secret, with the same k and c, returns Verified.
C35_VerifyUsesCurrentRegistration ==
    ReRegistered =>
        \A a \in AuthIds :
            (GetChallenge(a).present /\ GetChallenge(a).user = resp.user) =>
                \A kv \in RandomnessOf(GetChallenge(a)) :
                    /\ \A xnew \in SecretsOf(GetUser(resp.user)) :
                           VerifyChallengeRet(a, ResponseS(kv, GetChallenge(a).c, xnew,
                                                           FileMaterial.q))
                               = "ChallengeVerifiedSuccess"
                    /\ \A xold \in SecretsOf(resp.old) :
                           VerifyChallengeRet(a, ResponseS(kv, GetChallenge(a).c, xold,
                                                           FileMaterial.q))
                               = "ChallengeVerificationFailed"

\* a user re-registered with another secret while an honest challenge of
\* that user, issued under the old Registration, is stored
C35_Witness ==
    /\ ReRegistered
    /\ SecretsOf(resp.old) # {}
    /\ SecretsOf(GetUser(resp.user)) # {}
    /\ \E a \in AuthIds :
          /\ GetChallenge(a).present
          /\ GetChallenge(a).user = resp.user
          /\ RandomnessOf(GetChallenge(a)) # {}

-----------------------------------------------------------------------------
(* Properties of the fixed-width ChallengeTransition (checked under SpecFixed) *)

\* C24: a SessionId is minted only when verification succeeds.  A result
\* other than ChallengeVerified carries no SessionId and mints none; every
\* ChallengeVerified result carries a SessionId that is not empty and was
\* never handed out before.
C24_SessionOnlyOnSuccess ==
    [][fixed' # fixed =>
          /\ fixed'.outcome # ChallengeVerified =>
                 /\ fixed'.session = NoSession
                 /\ sessions' = sessions
          /\ fixed'.outcome = ChallengeVerified =>
                 /\ fixed'.session # NoSession
                 /\ fixed'.session \notin sessions
                 /\ sessions' = sessions \cup {fixed'.session}]_vars

\* a second successful verification has been given its own SessionId
C24_Witness ==
    /\ fixed.outcome = ChallengeVerified
    /\ fixed.session # NoSession
    /\ Cardinality(sessions) >= 2

\* the last change call had the arguments of the honest test: the answer
\* s = (rand_k - c * x) % q under the modulus p of the fixture
HonestChange == fixed.build # "none" /\ fixed.p = TestFixture.p

\* C39 (fixed-width honest answer): in the fixed-width transition an honest
\* answer s = (k - c*x) % q, for any k in [0, p], yields ChallengeVerified;
\* s and c are used as non-negative exponents and neither g^s * y1^c nor
\* h^s * y2^c overflows the wide integer.
C39_FixedWidthHonestVerifies ==
    HonestChange =>
        /\ fixed.outcome = ChallengeVerified
        /\ fixed.s >= 0
        /\ fixed.c >= 0
        /\ ~Prime(fixed.g, fixed.y1, fixed.s, fixed.c).ov
        /\ ~Prime(fixed.h, fixed.y2, fixed.s, fixed.c).ov

-----------------------------------------------------------------------------
(* Properties of the prover binary (checked under SpecProver) *)

\* the names under which k or x would travel or be stored
SecretFields == {"k", "x", "xr"}

\* C25: the commitment randomness k and the secret x never leave the prover.
\* Every request the prover sends is made of the user, y1, y2, r1, r2, the
\* auth_id and s alone, each being the public value of that name, and no
\* Register or ChallengeStore the verifier holds has a field for k or x.
C25_SecretsStayWithProver ==
    /\ \A i \in DOMAIN wire :
          /\ DOMAIN wire[i] \cap SecretFields = {}
          /\ wire[i].msg = "RegisterRequest" =>
                 wire[i] = [msg |-> "RegisterRequest", user |-> ProverUser,
                            y1 |-> y1, y2 |-> y2]
          /\ wire[i].msg = "AuthenticationChallengeRequest" =>
                 wire[i] = [msg |-> "AuthenticationChallengeRequest", user |-> ProverUser,
                            r1 |-> r1, r2 |-> r2]
          /\ wire[i].msg = "AuthenticationAnswerRequest" =>
                 /\ DOMAIN wire[i] = {"msg", "auth_id", "s"}
                 /\ wire[i].s = s
    /\ \A u \in VUsers : DOMAIN users[u] = {"present", "y1", "y2"}
    /\ \A a \in AuthIds : DOMAIN challenges[a] = {"present", "user", "r1", "r2", "c"}
    /\ \A u \in VUsers : users[u].present => users[u].y1 = y1 /\ users[u].y2 = y2
    /\ \A a \in AuthIds : challenges[a].present =>
                              challenges[a].r1 = r1 /\ challenges[a].r2 = r2

\* the prover has sent all three requests of a round, with a secret and a
\* randomness that differ from everything it sent
C25_Witness ==
    /\ pc = "done"
    /\ Len(wire) = 3
    /\ users[ProverUser].present
    /\ \E a \in AuthIds : challenges[a].present
    /\ {x, k} \cap {y1, y2, r1, r2, s} = {}

-----------------------------------------------------------------------------
(* Properties of the type-state wrapper (checked under SpecTypeState) *)

\* the client made the transition of -> to as its i-th step
ChangedAt(i, of, to) ==
    /\ i \in DOMAIN ts.trail
    /\ ts.trail[i] = [op |-> "change", of |-> of, to |-> to]

\* position of a state in the protocol order
OrderOf(step) == CHOOSE i \in DOMAIN ProtocolOrder : ProtocolOrder[i] = step

\* the last step of the client was a change
Changed == ts'.trail # ts.trail /\ ts'.trail[Len(ts'.trail)].op = "change"

\* C26: every protocol state is reachable only through the defined
\* transition from its predecessor: whoever holds a Verification or a
\* VerificationResult has made the transitions Register -> Commitment,
\* Material -> Challenge and ChallengeResponse -> VerificationRequest before,
\* in that order, and every state other than the two a round starts from
\* was produced by a change.
C26_StatesOnlyThroughTransitions ==
    /\ ts.state \in {"Verification", "VerificationResult"} =>
          \E i, j, l \in DOMAIN ts.trail :
              /\ i < j /\ j < l
              /\ ChangedAt(i, "Register", "Commitment")
              /\ ChangedAt(j, "Material", "Challenge")
              /\ ChangedAt(l, "ChallengeResponse", "VerificationRequest")
    /\ \A i \in DOMAIN ts.trail :
          ts.trail[i].op = "from" => ts.trail[i].of \in {"Register", "Material"}

\* C27: each state type has at most one outgoing transition, no transition
\* skips a state, and VerificationResult is terminal.  Every change step goes
\* to the one state the implementation for its source names, that state is
\* the next one in the protocol order, and no change step starts in
\* VerificationResult.
C27_OneTransitionNoSkipTerminal ==
    [][Changed =>
          /\ ts.state # "VerificationResult"
          /\ \A impl \in ChangeImpls : impl[1] = ts.state => impl[2] = ts'.state
          /\ OrderOf(ts'.state) = OrderOf(ts.state) + 1]_vars

\* the client wrapped a Verification and changed it into the final state
C27_Witness ==
    /\ ts.state = "VerificationResult"
    /\ ChangedAt(Len(ts.trail), "Verification", "VerificationResult")

-----------------------------------------------------------------------------
(* Properties of the handlers over arbitrary ports (checked under SpecHandler) *)

\* the port was called during the last handler call
Called(port) == \E i \in DOMAIN hcall.ports : hcall.ports[i] = port

\* C31: verify reports the first missing prerequisite in the order
\* ChallengeRecord, GroupParameters, Registration.  With the record and the
\* material present and no registration it fails with "User not found"
\* (create_challenge never asks for the registration, so such a record can
\* exist); with the material missing it fails with "Material not found for
\* user", whether or not a registration exists.
C31_FirstMissingPrerequisite ==
    /\ hcall.op = "verify_challenge" =>
          /\ hcall.getc.st = "none" => hcall.ret = "Challenge not found"
          /\ (hcall.getc.st = "some" /\ hcall.query.st = "none") =>
                 hcall.ret = "Material not found for user"
          /\ (hcall.getc.st = "some" /\ hcall.query.st = "some" /\ hcall.getu.st = "none") =>
                 hcall.ret = "User not found"
    /\ hcall.op = "create_challenge" => ~Called("get_user")

\* verify has failed for a stored challenge whose user has neither material
\* nor registration
C31_Witness ==
    /\ hcall.op = "verify_challenge"
    /\ hcall.getc.st = "some"
    /\ hcall.query.st = "none"
    /\ hcall.getu.st = "none"
    /\ hcall.ret = "Material not found for user"

\* how often the port was called during the last handler call
Calls(port) == Cardinality({i \in DOMAIN hcall.ports : hcall.ports[i] = port})

\* C32: a create_challenge call that fails returns no (auth_id, c).  With the
\* material absent it fails with "Material not found" and never calls
\* store_challenge; when store_challenge fails its error is what the call
\* returns, after a single store_challenge call.
C32_FailedCreateReturnsNothing ==
    hcall.op = "create_challenge" =>
        /\ hcall.ret # "ok" => (hcall.auth = 0 /\ hcall.c = 0 /\ ~hcall.stored)
        /\ hcall.query.st = "none" =>
               (hcall.ret = "Material not found" /\ Calls("store_challenge") = 0)
        /\ (Calls("store_challenge") > 0 /\ hcall.store = "err") =>
               (hcall.ret = "storage error" /\ Calls("store_challenge") = 1)

\* store_challenge has failed for a challenge minted over the material of
\* the file
C32_Witness ==
    /\ hcall.op = "create_challenge"
    /\ hcall.query = AnsSome(FileMaterial)
    /\ hcall.store = "err"
    /\ Calls("store_challenge") = 1
    /\ hcall.ret = "storage error"

-----------------------------------------------------------------------------
(* Properties of the material service (checked under SpecMaterial) *)

\* caller cl starts a create_material call in this step
StartsCreate(cl) ==
    /\ mcalls[cl].pc \in {"idle", "returned"}
    /\ mcalls'[cl] # mcalls[cl]
    /\ mcalls'[cl].op = "create"

\* the last call of cl was a create_material for u that returned a Material
CreatedOk(cl, u) ==
    /\ mcalls[cl].pc = "returned"
    /\ mcalls[cl].op = "create"
    /\ mcalls[cl].user = u
    /\ mcalls[cl].err = ""

\* C18 (idempotence): a create_material call that finds material stored for
\* its user returns exactly the stored material whatever its hints, without
\* running the generator and without writing to storage; and the second of
\* two sequential create_material calls for one user returns the material
\* the first returned.
C18_CreateMaterialIdempotent ==
    [][\A cl \in Callers :
        StartsCreate(cl) =>
            /\ MaterialExists(MatGet(mcalls'[cl].user)) =>
                   /\ mcalls'[cl].pc = "returned"
                   /\ mcalls'[cl].err = ""
                   /\ mcalls'[cl].m = MatGet(mcalls'[cl].user)
                   /\ ~mcalls'[cl].fresh
                   /\ materials' = materials
            /\ (/\ CreatedOk(cl, mcalls'[cl].user)
                /\ \A d \in Callers \ {cl} : mcalls[d].pc = "idle")
               => /\ mcalls'[cl].pc = "returned"
                  /\ mcalls'[cl].m = mcalls[cl].m]_vars

\* C18 witness: a create_material call with hints generate would reject
\* (q = p) has returned the stored material without generating, after an
\* earlier call generated and stored it
C18_Witness ==
    \E cl \in Callers, d \in Callers :
        /\ mcalls[d].pc = "returned" /\ mcalls[d].op = "create"
        /\ mcalls[d].fresh /\ mcalls[d].err = ""
        /\ mcalls[cl].pc = "returned" /\ mcalls[cl].op = "create"
        /\ ~mcalls[cl].fresh
        /\ mcalls[cl].qh = mcalls[cl].ph /\ mcalls[cl].qh # NoHint
        /\ mcalls[cl].user = mcalls[d].user
        /\ mcalls[cl].m = mcalls[d].m
        /\ MatGet(mcalls[cl].user) = mcalls[cl].m

\* C19 (created once, never mutated): once a create_material call has
\* returned material M for a user, the material stored for that user is M
\* ever after, under any interleaving of concurrent create_material calls.
C19_MaterialNeverMutated ==
    \A u \in MatUsers : mfirst[u] # NoMaterial => MatGet(u) = mfirst[u]

\* the last call of cl was a create_material for u in which generate failed
CreateFailed(cl, u) ==
    /\ mcalls[cl].pc = "returned"
    /\ mcalls[cl].op = "create"
    /\ mcalls[cl].user = u
    /\ mcalls[cl].err # ""

\* C36 (failed generation stores nothing): the step in which generate fails
\* inside create_material, and every step of that call, leaves the storage
\* as it is; with no other caller at work, after the failed call nothing is
\* stored for the user, a following get_material returns None and a
\* following create_material, whatever its hints, runs the generator again.
C36_FailedCreateStoresNothing ==
    [][\A cl \in Callers :
        /\ (/\ mcalls[cl].pc # "returned"
            /\ mcalls'[cl].pc = "returned"
            /\ mcalls'[cl].op = "create"
            /\ mcalls'[cl].err # "")
               => materials' = materials
        /\ \A u \in MatUsers :
              (/\ CreateFailed(cl, u)
               /\ \A d \in Callers \ {cl} : mcalls[d].pc = "idle")
              => /\ MatGet(u) = NoMaterial
                 /\ (mcalls'[cl] # mcalls[cl] /\ mcalls'[cl].op = "get"
                        /\ mcalls'[cl].user = u)
                       => (mcalls'[cl].pc = "returned" /\ mcalls'[cl].m = NoMaterial)
                 /\ (StartsCreate(cl) /\ mcalls'[cl].user = u)
                       => mcalls'[cl].pc = "generating"]_vars

\* C36 witness: a create_material whose generate ran into the timeout has
\* returned its error, no other caller has called, and nothing is stored
C36_Witness ==
    \E cl \in Callers :
        /\ \A d \in Callers \ {cl} : mcalls[d].pc = "idle"
        /\ CreateFailed(cl, "u1")
        /\ mcalls[cl].fresh
        /\ mcalls[cl].err = "Timeout in generating group"
        /\ MatGet("u1") = NoMaterial

=============================================================================
